---- MODULE Spec2Model ----
(***************************************************************************)
(* Blackjack (JacobDeLacerda/BlackJack): the three Streamlit scripts of    *)
(* the repository as one state machine over st.session_state.              *)
(*   version "main" : src/BJC.py                                           *)
(*   version "v1"   : src/Old/V1 (functional, bad ascii)/BJC.py            *)
(*   version "v11"  : src/Old/v1.1 (broken)/BJC.py                         *)
(* One action is one run of the script, top to bottom: either with one     *)
(* button of the previous rendering clicked, or with none (the rerun that  *)
(* st.rerun() queues, or a rerun the user asks the page for).              *)
(* Money is counted in cents.                                              *)
(***************************************************************************)
EXTENDS Integers, Sequences, FiniteSets, TLC

VARIABLES
    version,          \* which of the three scripts runs
    game_phase,       \* session_state.game_phase (main) / game_state (v1, v11)
    player_money,     \* session_state.player_money, cents
    dealer_money,     \* session_state.dealer_money, cents
    deck,             \* session_state.deck (main) / deck.cards (v1, v11)
    player_hand,      \* session_state.player_hand (.cards)
    dealer_hand,      \* session_state.dealer_hand (.cards)
    bet,              \* session_state.bet, cents
    message,          \* session_state.message
    round_over,       \* session_state.round_over (v1, v11)
    show_dealer_card, \* session_state.show_dealer_card (v1, v11)
    player_busted,    \* session_state.player_busted (v11)
    dealer_busted,    \* session_state.dealer_busted (v11)
    player_blackjack, \* session_state.player_blackjack (v11)
    dealer_blackjack, \* session_state.dealer_blackjack (v11)
    rerun,            \* st.rerun() was called: the script runs again at once
    buttons,          \* the buttons the last completed run rendered
    shown,            \* what the last run wrote on the page: phase, dealer cards, dealer value
    hist              \* history: the round's number, balances and bet when the bet was placed,
                      \* the doubling, the dealer's draws, how often the round was resolved

vars == <<version, game_phase, player_money, dealer_money, deck, player_hand,
          dealer_hand, bet, message, round_over, show_dealer_card, player_busted,
          dealer_busted, player_blackjack, dealer_blackjack, rerun, buttons, shown, hist>>

flags == <<round_over, show_dealer_card, player_busted, dealer_busted,
           player_blackjack, dealer_blackjack>>

----------------------------------------------------------------------------
(* Bounds of the model *)

\* rounds played per session before the model stops taking bets
MaxRounds == 2
\* how many runs of the script resolve one round before the model stops rerunning it
MaxResultRuns == 2
\* the longest hand whose value the value specification computes
MaxHandLen == 4
\* how many cards at the top of a shuffled deck the shuffle places freely
TopK == 4
\* the cards a shuffle may place at the top of the deck
FeaturedCards ==
    { <<"Hearts", "A">>, <<"Spades", "A">>, <<"Hearts", "K">>, <<"Spades", "K">>,
      <<"Hearts", "6">>, <<"Hearts", "4">> }
\* the amounts typed into the bet field, in cents
BetInputs == {0, 25000, 60000}

----------------------------------------------------------------------------
(* Cards and hands *)

\* what the page writes in place of the dealer's second card; it has the shape
\* of a card, so that a page can be compared with any other page
Hidden == <<"[Hidden]", "">>

suits == <<"Hearts", "Diamonds", "Clubs", "Spades">>
ranks == <<"2", "3", "4", "5", "6", "7", "8", "9", "10", "J", "Q", "K", "A">>

\* Python's int(rank) on the ranks that reach it
IntOfRank(rank) ==
    CASE rank = "2" -> 2 [] rank = "3" -> 3 [] rank = "4" -> 4 [] rank = "5" -> 5
      [] rank = "6" -> 6 [] rank = "7" -> 7 [] rank = "8" -> 8 [] rank = "9" -> 9
      [] rank = "10" -> 10

\* Card.__init__: the value a card carries (Ace as 11)
CardValue(rank) ==
    IF rank \in {"J", "Q", "K"} THEN 10
    ELSE IF rank = "A" THEN 11
    ELSE IntOfRank(rank)

RECURSIVE SumLoop(_, _, _)
\* the for loop of calculate_hand_value: <<value, aces>> after cards i..Len(hand)
SumLoop(hand, i, acc) ==
    IF i > Len(hand) THEN acc
    ELSE LET rank == hand[i][2] IN
         SumLoop(hand, i + 1,
                 IF rank \in {"J", "Q", "K"} THEN <<acc[1] + 10, acc[2]>>
                 ELSE IF rank = "A" THEN <<acc[1] + 11, acc[2] + 1>>
                 ELSE <<acc[1] + IntOfRank(rank), acc[2]>>)

RECURSIVE AceLoopFrom21(_, _)
\* a faulty variant of AceLoop: the loop also runs at 21
AceLoopFrom21(value, aces) ==
    IF value >= 21 /\ aces > 0 THEN AceLoopFrom21(value - 10, aces - 1) ELSE value

RECURSIVE AceLoop(_, _)
\* the while loop of calculate_hand_value
AceLoop(value, aces) ==
    IF value > 21 /\ aces > 0 THEN AceLoop(value - 10, aces - 1) ELSE value

\* calculate_hand_value of the three scripts (the old ones add card.value and
\* count the aces; an empty hand gives 0 in all of them)
calculate_hand_value(hand) ==
    LET s == SumLoop(hand, 1, <<0, 0>>) IN AceLoop(s[1], s[2])

----------------------------------------------------------------------------
(* Decks *)

\* [(suit, rank) for _ in range(num_decks) for suit in suits for rank in ranks]
BuildDeck(num_decks) ==
    [i \in 1..(52 * num_decks) |->
        <<suits[(((i - 1) % 52) \div 13) + 1], ranks[((i - 1) % 13) + 1]>>]

\* the places of the featured cards in the first deck of a freshly built shoe
FeaturedIdx == {i \in 1..52 : BuildDeck(1)[i] \in FeaturedCards}

\* the choices of TopK different places
TopChoices ==
    {s \in [1..TopK -> FeaturedIdx] : \A i, j \in 1..TopK : i # j => s[i] # s[j]}

\* the cards of full at the places not in picked, in order
Without(full, picked) ==
    LET kept == SelectSeq([i \in 1..Len(full) |-> i], LAMBDA i : i \notin picked)
    IN  [k \in 1..Len(kept) |-> full[kept[k]]]

\* random.shuffle: one of the orders the model explores. The cards at the places
\* s come to the end of the list, s[1] last, so that pop() deals s[1], s[2], ...;
\* the other cards keep the order in which they were built.
ShuffleWith(full, s) ==
    Without(full, {s[i] : i \in 1..TopK})
        \o [i \in 1..TopK |-> full[s[TopK + 1 - i]]]

\* the shuffled single deck of src/BJC.py and V1
Shuffles1 == {ShuffleWith(BuildDeck(1), s) : s \in TopChoices}

\* a faulty variant of Last: the card at the other end of the list
FirstOf(d) == d[1]

\* a faulty variant of Front: the card that was dealt stays in the list
WholeOf(d) == d

\* list.pop(): the last card, and the list without it
Last(d) == d[Len(d)]
Front(d) == SubSeq(d, 1, Len(d) - 1)

----------------------------------------------------------------------------
(* What every script shares *)

\* the history a new session starts with
NoHist == [round |-> 0, pm0 |-> 0, dm0 |-> 0, bet0 |-> 0, resolved |-> 0,
           doubled |-> FALSE, drew |-> 0]

\* the history of a round that starts with the bet b
NewRound(b) == [round |-> hist.round + 1, pm0 |-> player_money, dm0 |-> dealer_money,
                bet0 |-> b, resolved |-> 0, doubled |-> FALSE, drew |-> 0]

\* a run that ends in st.rerun(): the page it wrote is replaced at once
Rerunning == rerun' = TRUE /\ buttons' = {} /\ shown' = <<>>

\* a run that ends with the page p and the buttons b on the screen
Rendered(b, p) == rerun' = FALSE /\ buttons' = b /\ shown' = p

\* the user clicks the button b of the page on the screen
Clicked(b) == rerun = FALSE /\ b \in buttons

RECURSIVE DealerLoop(_, _)
\* while calculate_hand_value(dealer_hand) < 17: dealer_hand.append(deck.pop());
\* gives <<dealer_hand, deck>> after the loop
DealerLoop(hand, d) ==
    IF calculate_hand_value(hand) < 17 /\ Len(d) > 0
    THEN DealerLoop(Append(hand, Last(d)), Front(d))
    ELSE <<hand, d>>

----------------------------------------------------------------------------
(* src/BJC.py *)

MainSidebar == {"Reset Game", "Quit"}

\* the page of a phase that shows the dealer: first card and [Hidden] in
\* player_turn, the whole hand and its value in result
MainPage(phase, dh) ==
    IF phase = "player_turn" THEN <<phase, <<dh[1], Hidden>>, "">>
    ELSE IF phase = "result" THEN <<phase, dh, calculate_hand_value(dh)>>
    ELSE <<phase>>

MainPhaseButtons(phase) ==
    IF phase = "start" THEN {"Play"}
    ELSE IF phase = "betting" THEN {"Place Bet"}
    ELSE IF phase = "player_turn" THEN {"Hit", "Stand"}
    ELSE {}

\* initialize_session_state, and the first run's page
InitMain ==
    /\ version = "main"
    /\ game_phase = "start"
    /\ player_money = 50000
    /\ dealer_money = 500000000
    /\ deck = <<>>
    /\ player_hand = <<>>
    /\ dealer_hand = <<>>
    /\ bet = 0
    /\ message = ""
    /\ round_over = FALSE /\ show_dealer_card = FALSE
    /\ player_busted = FALSE /\ dealer_busted = FALSE
    /\ player_blackjack = FALSE /\ dealer_blackjack = FALSE
    /\ rerun = FALSE
    /\ buttons = MainSidebar \cup {"Play"}
    /\ shown = <<"start">>
    /\ hist = NoHist

\* a faulty variant of MainResetDeck: Reset Game leaves the deck as it is
MainResetKeepsDeck == deck

\* Reset Game: st.session_state.deck = []
MainResetDeck == <<>>

\* the Reset Game button of the sidebar
MainReset ==
    /\ version = "main" /\ Clicked("Reset Game")
    /\ game_phase' = "start"
    /\ player_money' = 50000
    /\ dealer_money' = 500000000
    /\ deck' = MainResetDeck
    /\ player_hand' = <<>>
    /\ dealer_hand' = <<>>
    /\ bet' = 0
    /\ message' = ""
    /\ hist' = NoHist
    /\ Rerunning
    /\ UNCHANGED <<version, flags>>

\* the Quit button of the sidebar
MainQuit ==
    /\ version = "main" /\ Clicked("Quit")
    /\ game_phase' = "quit"
    /\ Rerunning
    /\ UNCHANGED <<version, player_money, dealer_money, deck, player_hand,
                   dealer_hand, bet, message, flags, hist>>

\* a run with no button clicked in the phases quit, start, betting, player_turn:
\* the page is written and nothing else happens
MainRender ==
    /\ version = "main"
    /\ game_phase \in {"quit", "start", "betting", "player_turn"}
    /\ Rendered(MainSidebar \cup MainPhaseButtons(game_phase),
                MainPage(game_phase, dealer_hand))
    /\ UNCHANGED <<version, game_phase, player_money, dealer_money, deck,
                   player_hand, dealer_hand, bet, message, flags, hist>>

\* a faulty variant of MainPlayDeck: Play leaves the deck as it is
MainPlayDeckNotBuilt == {deck}

\* Play: deck = [(suit, rank) for suit in suits for rank in ranks]; random.shuffle(deck)
MainPlayDeck == Shuffles1

\* phase start, Play
MainPlay ==
    /\ version = "main" /\ game_phase = "start" /\ Clicked("Play")
    /\ game_phase' = "betting"
    /\ deck' \in MainPlayDeck
    /\ Rerunning
    /\ UNCHANGED <<version, player_money, dealer_money, player_hand,
                   dealer_hand, bet, message, flags, hist>>

\* a faulty variant of MainBetExceeds: no bet is held against the balance
MainBetAlwaysFits(amount) == FALSE

\* a faulty variant of MainBetExceeds: the bet is held against the casino's money
MainBetExceedsCasino(amount) == amount > dealer_money

\* if bet > st.session_state.player_money
MainBetExceeds(amount) == amount > player_money

\* phase betting, Place Bet with amount in the number field (at least 0.01)
MainPlaceBet(amount) ==
    /\ version = "main" /\ game_phase = "betting" /\ Clicked("Place Bet")
    /\ amount >= 1
    /\ IF MainBetExceeds(amount)
       THEN \* st.error
            /\ Rendered(MainSidebar \cup {"Place Bet"},
                        <<"betting", "Bet exceeds balance. Place another.">>)
            /\ UNCHANGED <<version, game_phase, player_money, dealer_money, deck,
                           player_hand, dealer_hand, bet, message, flags, hist>>
       ELSE /\ hist.round < MaxRounds
            /\ Len(deck) >= 4
            /\ bet' = amount
            /\ player_hand' = <<deck[Len(deck)], deck[Len(deck) - 1]>>
            /\ dealer_hand' = <<deck[Len(deck) - 2], deck[Len(deck) - 3]>>
            /\ deck' = SubSeq(deck, 1, Len(deck) - 4)
            /\ game_phase' = "player_turn"
            /\ hist' = NewRound(amount)
            /\ Rerunning
            /\ UNCHANGED <<version, player_money, dealer_money, message, flags>>

\* a faulty variant of MainAfterHit: a bust hand is passed on to the dealer's turn
MainAfterHitToDealer(hand) ==
    IF calculate_hand_value(hand) > 21 THEN "dealer_turn" ELSE "player_turn"

\* a faulty variant of MainAfterHit: a bust is not looked for
MainAfterHitStays(hand) == "player_turn"

\* Hit: the phase after the card is added
MainAfterHit(hand) ==
    IF calculate_hand_value(hand) > 21 THEN "result" ELSE "player_turn"

\* phase player_turn, Hit
MainHit ==
    /\ version = "main" /\ game_phase = "player_turn" /\ Clicked("Hit")
    /\ Len(deck) > 0
    /\ player_hand' = Append(player_hand, Last(deck))
    /\ deck' = Front(deck)
    /\ game_phase' = MainAfterHit(player_hand')
    /\ Rerunning
    /\ UNCHANGED <<version, player_money, dealer_money, dealer_hand, bet,
                   message, flags, hist>>

\* a faulty variant of MainAfterStand: the round is settled at once
MainAfterStandToResult == "result"

\* Stand: the phase it sets
MainAfterStand == "dealer_turn"

\* phase player_turn, Stand
MainStand ==
    /\ version = "main" /\ game_phase = "player_turn" /\ Clicked("Stand")
    /\ game_phase' = MainAfterStand
    /\ Rerunning
    /\ UNCHANGED <<version, player_money, dealer_money, deck, player_hand,
                   dealer_hand, bet, message, flags, hist>>

\* a faulty variant of MainAfterDealer: the phase is left as it is
MainAfterDealerStays == "dealer_turn"

\* phase dealer_turn: the phase set after the loop
MainAfterDealer == "result"

\* phase dealer_turn: the dealer's loop
MainDealerTurn ==
    /\ version = "main" /\ game_phase = "dealer_turn"
    /\ \E r \in {DealerLoop(dealer_hand, deck)} :
         /\ calculate_hand_value(r[1]) >= 17
         /\ dealer_hand' = r[1]
         /\ deck' = r[2]
         /\ hist' = [hist EXCEPT !.drew = Len(r[1]) - Len(dealer_hand)]
    /\ game_phase' = MainAfterDealer
    /\ Rerunning
    /\ UNCHANGED <<version, player_money, dealer_money, player_hand, bet,
                   message, flags>>

\* phase result, "Determine winner": <<message, change of player_money, change
\* of dealer_money>>
MainWinner(ph, dh, b) ==
    LET player_value == calculate_hand_value(ph)
        dealer_value == calculate_hand_value(dh) IN
    IF player_value > 21 THEN <<"You busted! You lose.", -b, b>>
    ELSE IF dealer_value > 21 THEN <<"Dealer busted! You win.", b, -b>>
    ELSE IF player_value > dealer_value THEN <<"You win!", b, -b>>
    ELSE IF dealer_value > player_value THEN <<"You lose!", -b, b>>
    ELSE <<"Push!", 0, 0>>

\* a faulty variant of MainGameOver: a balance of exactly nothing is not game over
MainGameOverBelowZero(pm, dm) == pm < 0 \/ dm < 0

\* "Check game over conditions": either st.stop() is reached
MainGameOver(pm, dm) == pm <= 0 \/ dm <= 0

\* phase result: every run of the script in this phase determines the winner
\* and moves the money, then checks for game over, then offers Play Again.
\* click is TRUE when the run was started by the Play Again button.
MainResult(click) ==
    /\ version = "main" /\ game_phase = "result"
    /\ IF click THEN Clicked("Play Again") ELSE TRUE
    /\ hist.resolved < MaxResultRuns
    /\ LET w == MainWinner(player_hand, dealer_hand, bet) IN
         /\ message' = w[1]
         /\ player_money' = player_money + w[2]
         /\ dealer_money' = dealer_money + w[3]
    /\ IF MainGameOver(player_money', dealer_money')
       THEN \* st.stop()
            /\ Rendered(MainSidebar, MainPage("result", dealer_hand))
            /\ hist' = [hist EXCEPT !.resolved = @ + 1]
            /\ UNCHANGED <<version, game_phase, deck, player_hand, dealer_hand,
                           bet, flags>>
       ELSE IF click
       THEN /\ game_phase' = "betting"
            /\ deck' \in Shuffles1
            /\ player_hand' = <<>>
            /\ dealer_hand' = <<>>
            /\ bet' = 0
            /\ hist' = [hist EXCEPT !.resolved = @ + 1]
            /\ Rerunning
            /\ UNCHANGED <<version, flags>>
       ELSE /\ Rendered(MainSidebar \cup {"Play Again"},
                        MainPage("result", dealer_hand))
            /\ hist' = [hist EXCEPT !.resolved = @ + 1]
            /\ UNCHANGED <<version, game_phase, deck, player_hand, dealer_hand,
                           bet, flags>>

MainResultRun == MainResult(FALSE)
MainPlayAgain == MainResult(TRUE)

NextMain ==
    \/ MainReset
    \/ MainQuit
    \/ MainRender
    \/ MainPlay
    \/ \E amount \in BetInputs : MainPlaceBet(amount)
    \/ MainHit
    \/ MainStand
    \/ MainDealerTurn
    \/ MainResultRun
    \/ MainPlayAgain

SpecMain == InitMain /\ [][NextMain]_vars

----------------------------------------------------------------------------
(* src/Old/V1 (functional, bad ascii)/BJC.py *)

\* Deck.deal of V1: an empty deck is rebuilt and shuffled first; the outcomes
\* <<card, cards left>>
V1Deal(d) ==
    IF Len(d) = 0 THEN {<<Last(n), Front(n)>> : n \in Shuffles1}
    ELSE {<<Last(d), Front(d)>>}

RECURSIVE V1DealerLoopTo16(_, _)
\* a dealer who draws while below 16 only, and so stands on 16
V1DealerLoopTo16(hand, d) ==
    IF calculate_hand_value(hand) < 16
    THEN UNION {V1DealerLoopTo16(Append(hand, o[1]), o[2]) : o \in V1Deal(d)}
    ELSE {<<hand, d>>}

RECURSIVE V1DealerLoop(_, _)
\* while calculate_hand_value(dealer_hand) < 17: dealer_hand.add_card(deck.deal());
\* the outcomes <<dealer_hand, cards left>>
V1DealerLoop(hand, d) ==
    IF calculate_hand_value(hand) < 17
    THEN UNION {V1DealerLoop(Append(hand, o[1]), o[2]) : o \in V1Deal(d)}
    ELSE {<<hand, d>>}

\* a faulty variant of OldPage: the value written under the hidden card is that
\* of the whole hand
OldPageWholeValue(phase, dh, show) ==
    IF Len(dh) = 0 THEN <<phase, <<>>, "">>
    ELSE IF show THEN <<phase, dh, calculate_hand_value(dh)>>
    ELSE <<phase, <<dh[1], Hidden>>, calculate_hand_value(dh)>>

\* display_game_state_ui: the dealer's cards and value as written on the page
OldPage(phase, dh, show) ==
    IF Len(dh) = 0 THEN <<phase, <<>>, "">>
    ELSE IF show THEN <<phase, dh, calculate_hand_value(dh)>>
    ELSE <<phase, <<dh[1], Hidden>>, CardValue(dh[1][2])>>

\* initialize_game
InitV1 ==
    /\ version = "v1"
    /\ game_phase = "HOME"
    /\ player_money = 50000
    /\ dealer_money = 500000000
    /\ deck \in Shuffles1
    /\ player_hand = <<>>
    /\ dealer_hand = <<>>
    /\ bet = 0
    /\ message = ""
    /\ round_over = FALSE /\ show_dealer_card = FALSE
    /\ player_busted = FALSE /\ dealer_busted = FALSE
    /\ player_blackjack = FALSE /\ dealer_blackjack = FALSE
    /\ rerun = FALSE
    /\ buttons = {"Play Game"}
    /\ shown = <<"HOME">>
    /\ hist = NoHist

\* the buttons of the pages that display_game_state_ui does not write
OldButtons(phase) ==
    CASE phase = "HOME" -> {"Play Game"}
      [] phase = "BETTING" -> {"Place Bet & Deal"}
      [] phase = "GAME_OVER" -> {"Start New Game"}

\* a run with no button clicked in HOME, BETTING, PLAYER_TURN or GAME_OVER: the
\* page is written and nothing else happens, but that display_betting_screen
\* goes to GAME_OVER when no money is left
V1Render ==
    /\ version = "v1"
    /\ game_phase \in {"HOME", "BETTING", "PLAYER_TURN", "GAME_OVER"}
    /\ IF game_phase = "BETTING" /\ player_money <= 0
       THEN game_phase' = "GAME_OVER" /\ Rerunning
       ELSE /\ UNCHANGED game_phase
            /\ IF game_phase = "PLAYER_TURN"
               THEN Rendered({"Hit", "Stand"},
                             OldPage(game_phase, dealer_hand, show_dealer_card))
               ELSE Rendered(OldButtons(game_phase), <<game_phase>>)
    /\ UNCHANGED <<version, player_money, dealer_money, deck, player_hand,
                   dealer_hand, bet, message, flags, hist>>

\* display_home_screen, Play Game
V1PlayGame ==
    /\ version = "v1" /\ game_phase = "HOME" /\ Clicked("Play Game")
    /\ game_phase' = "BETTING"
    /\ Rerunning
    /\ UNCHANGED <<version, player_money, dealer_money, deck, player_hand,
                   dealer_hand, bet, message, flags, hist>>

\* display_betting_screen, Place Bet & Deal with bet_amount in the number field
V1PlaceBet(bet_amount) ==
    /\ version = "v1" /\ game_phase = "BETTING" /\ Clicked("Place Bet & Deal")
    /\ player_money > 0
    /\ IF 1 <= bet_amount /\ bet_amount <= player_money
       THEN /\ hist.round < MaxRounds
            /\ \E d \in Shuffles1 :
                 /\ player_hand' = <<d[Len(d)], d[Len(d) - 2]>>
                 /\ dealer_hand' = <<d[Len(d) - 1], d[Len(d) - 3]>>
                 /\ deck' = SubSeq(d, 1, Len(d) - 4)
            /\ bet' = bet_amount
            /\ round_over' = FALSE
            /\ show_dealer_card' = FALSE
            /\ IF calculate_hand_value(player_hand') = 21
               THEN message' = "Blackjack!" /\ game_phase' = "DEALER_TURN"
               ELSE message' = "" /\ game_phase' = "PLAYER_TURN"
            /\ hist' = NewRound(bet_amount)
            /\ Rerunning
            /\ UNCHANGED <<version, player_money, dealer_money, player_busted,
                           dealer_busted, player_blackjack, dealer_blackjack>>
       ELSE \* st.error
            /\ Rendered({"Place Bet & Deal"}, <<"BETTING", "Invalid bet amount.">>)
            /\ UNCHANGED <<version, game_phase, player_money, dealer_money, deck,
                           player_hand, dealer_hand, bet, message, flags, hist>>

\* display_game_state_ui, Hit
V1Hit ==
    /\ version = "v1" /\ game_phase = "PLAYER_TURN" /\ Clicked("Hit")
    /\ \E o \in V1Deal(deck) :
         /\ player_hand' = Append(player_hand, o[1])
         /\ deck' = o[2]
    /\ IF calculate_hand_value(player_hand') > 21
       THEN /\ message' = "You Busted!"
            /\ game_phase' = "SHOWDOWN"
            /\ round_over' = TRUE
       ELSE UNCHANGED <<message, game_phase, round_over>>
    /\ Rerunning
    /\ UNCHANGED <<version, player_money, dealer_money, dealer_hand, bet,
                   show_dealer_card, player_busted, dealer_busted,
                   player_blackjack, dealer_blackjack, hist>>

\* display_game_state_ui, Stand
V1Stand ==
    /\ version = "v1" /\ game_phase = "PLAYER_TURN" /\ Clicked("Stand")
    /\ game_phase' = "DEALER_TURN"
    /\ message' = "You stand. Dealer's turn..."
    /\ Rerunning
    /\ UNCHANGED <<version, player_money, dealer_money, deck, player_hand,
                   dealer_hand, bet, flags, hist>>

\* a run in DEALER_TURN: the page, then process_dealer_turn
V1DealerTurn ==
    /\ version = "v1" /\ game_phase = "DEALER_TURN"
    /\ show_dealer_card' = TRUE
    /\ IF /\ calculate_hand_value(player_hand) = 21
          /\ Len(player_hand) = 2
          /\ calculate_hand_value(dealer_hand) # 21
       THEN /\ message' = "Blackjack! You win 1.5x your bet!"
            /\ UNCHANGED <<dealer_hand, deck, hist>>
       ELSE \E r \in V1DealerLoop(dealer_hand, deck) :
            /\ dealer_hand' = r[1]
            /\ deck' = r[2]
            /\ hist' = [hist EXCEPT !.drew = Len(r[1]) - Len(dealer_hand)]
            /\ message' = IF calculate_hand_value(r[1]) > 21
                          THEN "Dealer Busts! You Win!" ELSE message
    /\ game_phase' = "SHOWDOWN"
    /\ round_over' = TRUE
    /\ Rerunning
    /\ UNCHANGED <<version, player_money, dealer_money, player_hand, bet,
                   player_busted, dealer_busted, player_blackjack, dealer_blackjack>>

\* a faulty variant of V1Winner: any 21 counts as a blackjack, however many cards
V1WinnerAny21(ph, dh, b) ==
    LET player_value == calculate_hand_value(ph)
        dealer_value == calculate_hand_value(dh) IN
    IF player_value > 21 THEN <<"You Busted! You lose.", -b, b>>
    ELSE IF dealer_value > 21 THEN <<"Dealer Busts! You Win! You win.", b, -b>>
    ELSE IF player_value = 21
    THEN IF dealer_value = 21
         THEN <<"Push! Both have Blackjack.", 0, 0>>
         ELSE <<"Blackjack! You win.", (b * 3) \div 2, -((b * 3) \div 2)>>
    ELSE IF dealer_value = 21
    THEN <<"Dealer Blackjack! You lose.", -b, b>>
    ELSE IF player_value > dealer_value THEN <<"You Win!", b, -b>>
    ELSE IF dealer_value > player_value THEN <<"You Lose!", -b, b>>
    ELSE <<"Push!", 0, 0>>

\* process_showdown of V1, "Determine winner": <<message, change of
\* player_money, change of dealer_money>>
V1Winner(ph, dh, b) ==
    LET player_value == calculate_hand_value(ph)
        dealer_value == calculate_hand_value(dh) IN
    IF player_value > 21 THEN <<"You Busted! You lose.", -b, b>>
    ELSE IF dealer_value > 21 THEN <<"Dealer Busts! You Win! You win.", b, -b>>
    ELSE IF player_value = 21 /\ Len(ph) = 2
    THEN IF dealer_value = 21 /\ Len(dh) = 2
         THEN <<"Push! Both have Blackjack.", 0, 0>>
         ELSE <<"Blackjack! You win.", (b * 3) \div 2, -((b * 3) \div 2)>>
    ELSE IF dealer_value = 21 /\ Len(dh) = 2
    THEN <<"Dealer Blackjack! You lose.", -b, b>>
    ELSE IF player_value > dealer_value THEN <<"You Win!", b, -b>>
    ELSE IF dealer_value > player_value THEN <<"You Lose!", -b, b>>
    ELSE <<"Push!", 0, 0>>

\* a run in SHOWDOWN with Play Again? not clicked: the page, then process_showdown
V1Showdown ==
    /\ version = "v1" /\ game_phase = "SHOWDOWN"
    /\ hist.resolved < MaxResultRuns
    /\ LET w == V1Winner(player_hand, dealer_hand, bet) IN
         /\ player_money' = player_money + w[2]
         /\ dealer_money' = dealer_money + w[3]
         /\ IF player_money' <= 0
            THEN game_phase' = "GAME_OVER" /\ message' = "You've run out of money!"
            ELSE IF dealer_money' <= 0
            THEN game_phase' = "GAME_OVER" /\ message' = "You've bankrupted the casino!"
            ELSE game_phase' = game_phase /\ message' = w[1]
    /\ round_over' = TRUE
    /\ hist' = [hist EXCEPT !.resolved = @ + 1]
    /\ Rendered(IF round_over THEN {"Play Again?"} ELSE {},
                OldPage("SHOWDOWN", dealer_hand, show_dealer_card))
    /\ UNCHANGED <<version, deck, player_hand, dealer_hand, bet, show_dealer_card,
                   player_busted, dealer_busted, player_blackjack, dealer_blackjack>>

\* display_game_state_ui, Play Again?
V1PlayAgain ==
    /\ version = "v1" /\ game_phase = "SHOWDOWN" /\ round_over
    /\ Clicked("Play Again?")
    /\ game_phase' = "BETTING"
    /\ message' = ""
    /\ bet' = 0
    /\ round_over' = FALSE
    /\ show_dealer_card' = FALSE
    /\ Rerunning
    /\ UNCHANGED <<version, player_money, dealer_money, deck, player_hand,
                   dealer_hand, player_busted, dealer_busted, player_blackjack,
                   dealer_blackjack, hist>>

\* display_game_over_screen, Start New Game: every key is deleted and
\* initialize_game sets the session up again
V1StartNewGame ==
    /\ version = "v1" /\ game_phase = "GAME_OVER" /\ Clicked("Start New Game")
    /\ game_phase' = "HOME"
    /\ player_money' = 50000
    /\ dealer_money' = 500000000
    /\ deck' \in Shuffles1
    /\ player_hand' = <<>>
    /\ dealer_hand' = <<>>
    /\ bet' = 0
    /\ message' = ""
    /\ round_over' = FALSE
    /\ show_dealer_card' = FALSE
    /\ hist' = NoHist
    /\ Rerunning
    /\ UNCHANGED <<version, player_busted, dealer_busted, player_blackjack,
                   dealer_blackjack>>

NextV1 ==
    \/ V1Render
    \/ V1PlayGame
    \/ \E bet_amount \in BetInputs : V1PlaceBet(bet_amount)
    \/ V1Hit
    \/ V1Stand
    \/ V1DealerTurn
    \/ V1Showdown
    \/ V1PlayAgain
    \/ V1StartNewGame

SpecV1 == InitV1 /\ [][NextV1]_vars

----------------------------------------------------------------------------
(* src/Old/v1.1 (broken)/BJC.py *)

NUM_DECKS == 4
\* RESHUFFLE_THRESHOLD = 0.25, in hundredths
RESHUFFLE_THRESHOLD == 25

\* Deck.__init__: math.floor(52 * num_decks * RESHUFFLE_THRESHOLD)
reshuffle_point(num_decks) == (52 * num_decks * RESHUFFLE_THRESHOLD) \div 100

\* Deck.build_and_shuffle of the shoe of NUM_DECKS decks
Shuffles4 == {ShuffleWith(BuildDeck(NUM_DECKS), s) : s \in TopChoices}

\* a faulty variant of needs_reshuffle: the shoe is rebuilt only when it is empty
needs_reshuffle_when_empty(d) == Len(d) = 0

\* Deck.needs_reshuffle
needs_reshuffle(d) == Len(d) <= reshuffle_point(NUM_DECKS)

\* what Deck.deal returns when it has no card
NoCard == <<>>

\* Deck.deal of v1.1: the outcomes <<card, cards left>>
V11Deal(d) ==
    IF needs_reshuffle(d) THEN {<<Last(n), Front(n)>> : n \in Shuffles4}
    ELSE IF Len(d) = 0 THEN {<<NoCard, d>>}
    ELSE {<<Last(d), Front(d)>>}

\* Hand.add_card
add_card(hand, card) == IF card = NoCard THEN hand ELSE Append(hand, card)

RECURSIVE V11InitialDeal(_, _, _, _)
\* for _ in range(2): player_hand.add_card(deck.deal()); dealer_hand.add_card(deck.deal())
\* from the i-th of the four cards on; the outcomes <<player_hand, dealer_hand, cards left>>
V11InitialDeal(ph, dh, d, i) ==
    IF i > 4 THEN {<<ph, dh, d>>}
    ELSE UNION {IF i % 2 = 1
                THEN V11InitialDeal(add_card(ph, o[1]), dh, o[2], i + 1)
                ELSE V11InitialDeal(ph, add_card(dh, o[1]), o[2], i + 1)
                : o \in V11Deal(d)}

RECURSIVE V11DealerLoop(_, _)
\* while calculate_hand_value(dealer_hand) < 17: dealer_hand.add_card(deck.deal());
\* the outcomes <<dealer_hand, cards left>>
V11DealerLoop(hand, d) ==
    IF calculate_hand_value(hand) < 17
    THEN UNION {V11DealerLoop(add_card(hand, o[1]), o[2]) : o \in V11Deal(d)}
    ELSE {<<hand, d>>}

\* initialize_game
InitV11 ==
    /\ version = "v11"
    /\ game_phase = "HOME"
    /\ player_money = 50000
    /\ dealer_money = 500000000
    /\ deck \in Shuffles4
    /\ player_hand = <<>>
    /\ dealer_hand = <<>>
    /\ bet = 0
    /\ message = ""
    /\ round_over = FALSE /\ show_dealer_card = FALSE
    /\ player_busted = FALSE /\ dealer_busted = FALSE
    /\ player_blackjack = FALSE /\ dealer_blackjack = FALSE
    /\ rerun = FALSE
    /\ buttons = {"Play Game"}
    /\ shown = <<"HOME">>
    /\ hist = NoHist

\* a faulty variant of can_double_down: the number of cards is not looked at
can_double_down_any_hand == player_money >= bet

\* display_game_state_ui: can_double_down
can_double_down == Len(player_hand) = 2 /\ player_money >= bet

\* display_game_state_ui: the action buttons of PLAYER_TURN
V11ActionButtons ==
    {"Hit", "Stand"} \cup (IF can_double_down THEN {"Double Down"} ELSE {})

\* a run with no button clicked in HOME, BETTING, PLAYER_TURN or GAME_OVER: the
\* page is written and nothing else happens, but that display_betting_screen
\* goes to GAME_OVER when no money is left
V11Render ==
    /\ version = "v11"
    /\ game_phase \in {"HOME", "BETTING", "PLAYER_TURN", "GAME_OVER"}
    /\ IF game_phase = "BETTING" /\ player_money <= 0
       THEN game_phase' = "GAME_OVER" /\ Rerunning
       ELSE /\ UNCHANGED game_phase
            /\ IF game_phase = "PLAYER_TURN"
               THEN Rendered(V11ActionButtons,
                             OldPage(game_phase, dealer_hand, show_dealer_card))
               ELSE Rendered(OldButtons(game_phase), <<game_phase>>)
    /\ UNCHANGED <<version, player_money, dealer_money, deck, player_hand,
                   dealer_hand, bet, message, flags, hist>>

\* display_home_screen, Play Game
V11PlayGame ==
    /\ version = "v11" /\ game_phase = "HOME" /\ Clicked("Play Game")
    /\ player_money' = 50000
    /\ dealer_money' = 500000000
    /\ deck' \in Shuffles4
    /\ game_phase' = "BETTING"
    /\ message' = ""
    /\ Rerunning
    /\ UNCHANGED <<version, player_hand, dealer_hand, bet, flags, hist>>

\* a faulty variant of V11ResetBusted: the flag of the round before is kept
V11KeepBusted == player_busted

\* display_betting_screen: st.session_state.player_busted = False
V11ResetBusted == FALSE

\* a faulty variant of V11AfterDeal: the player's turn follows every deal
V11AfterDealToPlayer(pbj, dbj) == "PLAYER_TURN"

\* display_betting_screen: the state after the deal, from the two blackjack flags
V11AfterDeal(pbj, dbj) == IF pbj \/ dbj THEN "DEALER_TURN" ELSE "PLAYER_TURN"

\* display_betting_screen, Place Bet & Deal with bet_amount in the number field
V11PlaceBet(bet_amount) ==
    /\ version = "v11" /\ game_phase = "BETTING" /\ Clicked("Place Bet & Deal")
    /\ player_money > 0
    /\ IF 1 <= bet_amount /\ bet_amount <= player_money
       THEN /\ hist.round < MaxRounds
            /\ bet' = bet_amount
            /\ message' = ""
            /\ round_over' = FALSE
            /\ show_dealer_card' = FALSE
            /\ player_busted' = V11ResetBusted
            /\ dealer_busted' = FALSE
            /\ \E d0 \in (IF needs_reshuffle(deck) THEN Shuffles4 ELSE {deck}) :
               \E o \in V11InitialDeal(<<>>, <<>>, d0, 1) :
                 /\ player_hand' = o[1]
                 /\ dealer_hand' = o[2]
                 /\ deck' = o[3]
            /\ player_blackjack' = (calculate_hand_value(player_hand') = 21)
            /\ dealer_blackjack' = (calculate_hand_value(dealer_hand') = 21)
            /\ game_phase' = V11AfterDeal(player_blackjack', dealer_blackjack')
            /\ hist' = NewRound(bet_amount)
            /\ Rerunning
            /\ UNCHANGED <<version, player_money, dealer_money>>
       ELSE \* st.error
            /\ Rendered({"Place Bet & Deal"}, <<"BETTING", "Invalid bet amount.">>)
            /\ UNCHANGED <<version, game_phase, player_money, dealer_money, deck,
                           player_hand, dealer_hand, bet, message, flags, hist>>

\* display_game_state_ui, Hit
V11Hit ==
    /\ version = "v11" /\ game_phase = "PLAYER_TURN" /\ Clicked("Hit")
    /\ \E o \in V11Deal(deck) :
         /\ player_hand' = add_card(player_hand, o[1])
         /\ deck' = o[2]
    /\ IF calculate_hand_value(player_hand') > 21
       THEN player_busted' = TRUE /\ game_phase' = "SHOWDOWN"
       ELSE UNCHANGED <<player_busted, game_phase>>
    /\ Rerunning
    /\ UNCHANGED <<version, player_money, dealer_money, dealer_hand, bet, message,
                   round_over, show_dealer_card, dealer_busted, player_blackjack,
                   dealer_blackjack, hist>>

\* display_game_state_ui, Stand
V11Stand ==
    /\ version = "v11" /\ game_phase = "PLAYER_TURN" /\ Clicked("Stand")
    /\ game_phase' = "DEALER_TURN"
    /\ Rerunning
    /\ UNCHANGED <<version, player_money, dealer_money, deck, player_hand,
                   dealer_hand, bet, message, flags, hist>>

\* a faulty variant of V11AfterDouble: the player's turn goes on after the card
V11AfterDoubleTurnGoesOn(hand) ==
    IF calculate_hand_value(hand) > 21 THEN "SHOWDOWN" ELSE "PLAYER_TURN"

\* a faulty variant of V11AfterDouble: the round is settled at once, the
\* dealer does not play
V11AfterDoubleToShowdown(hand) == "SHOWDOWN"

\* Double Down: the state after the one card is added
V11AfterDouble(hand) ==
    IF calculate_hand_value(hand) > 21 THEN "SHOWDOWN" ELSE "DEALER_TURN"

\* display_game_state_ui, Double Down
V11DoubleDown ==
    /\ version = "v11" /\ game_phase = "PLAYER_TURN"
    /\ can_double_down
    /\ Clicked("Double Down")
    /\ player_money' = player_money - bet
    /\ bet' = bet * 2
    /\ \E o \in V11Deal(deck) :
         /\ player_hand' = add_card(player_hand, o[1])
         /\ deck' = o[2]
    /\ player_busted' = IF calculate_hand_value(player_hand') > 21
                        THEN TRUE ELSE player_busted
    /\ game_phase' = V11AfterDouble(player_hand')
    /\ hist' = [hist EXCEPT !.doubled = TRUE]
    /\ Rerunning
    /\ UNCHANGED <<version, dealer_money, dealer_hand, message, round_over,
                   show_dealer_card, dealer_busted, player_blackjack, dealer_blackjack>>

\* a run in DEALER_TURN: the page, then process_dealer_turn
V11DealerTurn ==
    /\ version = "v11" /\ game_phase = "DEALER_TURN"
    /\ show_dealer_card' = TRUE
    /\ IF ~player_busted
       THEN \E r \in V11DealerLoop(dealer_hand, deck) :
            /\ dealer_hand' = r[1]
            /\ deck' = r[2]
            /\ hist' = [hist EXCEPT !.drew = Len(r[1]) - Len(dealer_hand)]
            /\ dealer_busted' = IF calculate_hand_value(r[1]) > 21
                                THEN TRUE ELSE dealer_busted
       ELSE UNCHANGED <<dealer_hand, deck, hist, dealer_busted>>
    /\ game_phase' = "SHOWDOWN"
    /\ Rerunning
    /\ UNCHANGED <<version, player_money, dealer_money, player_hand, bet, message,
                   round_over, player_busted, player_blackjack, dealer_blackjack>>

\* process_showdown of v1.1, "Determine Outcome": <<message, change of
\* player_money, change of dealer_money>>
V11Outcome(pbust, dbust, pbj, dbj, ph, dh, b) ==
    LET player_value == calculate_hand_value(ph)
        dealer_value == calculate_hand_value(dh) IN
    IF pbust THEN <<"You Busted! You lose.", -b, b>>
    ELSE IF dbust THEN <<"Dealer Busts! You Win!", b, -b>>
    ELSE IF pbj
    THEN IF dbj
         THEN <<"Push! Both have Blackjack. Bet returned.", 0, 0>>
         ELSE <<"Blackjack! You win!", (b * 3) \div 2, -((b * 3) \div 2)>>
    ELSE IF dbj THEN <<"Dealer Blackjack! You lose.", -b, b>>
    ELSE IF player_value > dealer_value THEN <<"You Win!", b, -b>>
    ELSE IF dealer_value > player_value THEN <<"You Lose!", -b, b>>
    ELSE <<"Push! Bet returned.", 0, 0>>

\* a run in SHOWDOWN with Play Next Hand? not clicked: the page, then
\* process_showdown unless the round is over, then a rerun if the game is over
V11Showdown ==
    /\ version = "v11" /\ game_phase = "SHOWDOWN"
    /\ IF ~round_over
       THEN LET w == V11Outcome(player_busted, dealer_busted, player_blackjack,
                                dealer_blackjack, player_hand, dealer_hand, bet) IN
            /\ player_money' = player_money + w[2]
            /\ dealer_money' = dealer_money + w[3]
            /\ message' = w[1]
            /\ round_over' = TRUE
            /\ show_dealer_card' = TRUE
            /\ game_phase' = IF player_money' <= 0 \/ dealer_money' <= 0
                             THEN "GAME_OVER" ELSE game_phase
            /\ hist' = [hist EXCEPT !.resolved = @ + 1]
       ELSE UNCHANGED <<player_money, dealer_money, message, round_over,
                        show_dealer_card, game_phase, hist>>
    /\ IF game_phase' = "GAME_OVER"
       THEN Rerunning
       ELSE Rendered(IF round_over THEN {"Play Next Hand?"} ELSE {},
                     OldPage("SHOWDOWN", dealer_hand, show_dealer_card))
    /\ UNCHANGED <<version, deck, player_hand, dealer_hand, bet, player_busted,
                   dealer_busted, player_blackjack, dealer_blackjack>>

\* display_game_state_ui, Play Next Hand?
V11PlayNextHand ==
    /\ version = "v11" /\ game_phase = "SHOWDOWN" /\ round_over
    /\ Clicked("Play Next Hand?")
    /\ game_phase' = "BETTING"
    /\ Rerunning
    /\ UNCHANGED <<version, player_money, dealer_money, deck, player_hand,
                   dealer_hand, bet, message, flags, hist>>

\* display_game_over_screen, Start New Game: every key is deleted and the rerun's
\* initialize_game sets the session up again
V11StartNewGame ==
    /\ version = "v11" /\ game_phase = "GAME_OVER" /\ Clicked("Start New Game")
    /\ game_phase' = "HOME"
    /\ player_money' = 50000
    /\ dealer_money' = 500000000
    /\ deck' \in Shuffles4
    /\ player_hand' = <<>>
    /\ dealer_hand' = <<>>
    /\ bet' = 0
    /\ message' = ""
    /\ round_over' = FALSE /\ show_dealer_card' = FALSE
    /\ player_busted' = FALSE /\ dealer_busted' = FALSE
    /\ player_blackjack' = FALSE /\ dealer_blackjack' = FALSE
    /\ hist' = NoHist
    /\ Rerunning
    /\ UNCHANGED version

NextV11 ==
    \/ V11Render
    \/ V11PlayGame
    \/ \E bet_amount \in BetInputs : V11PlaceBet(bet_amount)
    \/ V11Hit
    \/ V11Stand
    \/ V11DoubleDown
    \/ V11DealerTurn
    \/ V11Showdown
    \/ V11PlayNextHand
    \/ V11StartNewGame

SpecV11 == InitV11 /\ [][NextV11]_vars

----------------------------------------------------------------------------
(* The three scripts together *)

Init == InitMain \/ InitV1 \/ InitV11

Next == NextMain \/ NextV1 \/ NextV11

Spec == Init /\ [][Next]_vars

\* the run of the script that st.rerun() has asked for in the dealer's turn or
\* at the showdown: it starts at once, with no click of the user
PendingRun ==
    /\ rerun
    /\ game_phase \in {"dealer_turn", "DEALER_TURN", "result", "SHOWDOWN"}
    /\ Next

\* the three scripts with every such run taking place
SpecLive == Spec /\ WF_vars(PendingRun)

----------------------------------------------------------------------------
(* calculate_hand_value on its own: any hand of up to MaxHandLen cards, and    *)
(* the line of the player_turn page that writes its value                       *)

\* the hands the value specification starts from (the suit plays no part)
ValueHands ==
    UNION {[1..n -> {<<"Hearts", ranks[i]>> : i \in 1..13}] : n \in 0..MaxHandLen}

InitValue ==
    /\ version = "value"
    /\ game_phase = "player_turn"
    /\ player_money = 50000
    /\ dealer_money = 500000000
    /\ deck = <<>>
    /\ player_hand \in ValueHands
    /\ dealer_hand = <<>>
    /\ bet = 0
    /\ message = ""
    /\ round_over = FALSE /\ show_dealer_card = FALSE
    /\ player_busted = FALSE /\ dealer_busted = FALSE
    /\ player_blackjack = FALSE /\ dealer_blackjack = FALSE
    /\ rerun = FALSE
    /\ buttons = {}
    /\ shown = <<"Your Hand">>
    /\ hist = NoHist

\* st.markdown(f"**Value:** {calculate_hand_value(st.session_state.player_hand)}")
ShowValue ==
    /\ version = "value"
    /\ shown' = <<"Value", calculate_hand_value(player_hand)>>
    /\ UNCHANGED <<version, game_phase, player_money, dealer_money, deck,
                   player_hand, dealer_hand, bet, message, flags, rerun, buttons, hist>>

SpecValue == InitValue /\ [][ShowValue]_vars

----------------------------------------------------------------------------
(* The Deck of v1.1 on its own: Deck(num_decks=NUM_DECKS) and deal() called     *)
(* again and again, as the rounds of a long session call it. Here hist.round    *)
(* counts the rebuilds that deal() made and hist.drew the cards dealt since the *)
(* shoe was last built; shown is what the last deal() returned.                 *)

\* Deck.__init__
InitDeck ==
    /\ version = "deck"
    /\ game_phase = "HOME"
    /\ player_money = 50000
    /\ dealer_money = 500000000
    /\ deck \in Shuffles4
    /\ player_hand = <<>>
    /\ dealer_hand = <<>>
    /\ bet = 0
    /\ message = ""
    /\ round_over = FALSE /\ show_dealer_card = FALSE
    /\ player_busted = FALSE /\ dealer_busted = FALSE
    /\ player_blackjack = FALSE /\ dealer_blackjack = FALSE
    /\ rerun = FALSE
    /\ buttons = {}
    /\ shown = <<>>
    /\ hist = NoHist

\* Deck.deal
DeckDeal ==
    /\ version = "deck"
    /\ \E o \in V11Deal(deck) :
         /\ deck' = o[2]
         /\ shown' = <<"deal", o[1]>>
    /\ hist' = IF needs_reshuffle(deck)
               THEN [hist EXCEPT !.round = 1, !.drew = 1]
               ELSE [hist EXCEPT !.drew = @ + 1]
    /\ UNCHANGED <<version, game_phase, player_money, dealer_money, player_hand,
                   dealer_hand, bet, message, flags, rerun, buttons>>

SpecDeck == InitDeck /\ [][DeckDeal]_vars

----------------------------------------------------------------------------
(* The class Deck of v1.1 with the argument num_decks left open: Deck(n) for    *)
(* the n of NumDecksTried, and deal() called on the object. Here deck is the    *)
(* whole object (num_decks, cards, reshuffle_point) and shown is what the last  *)
(* deal() returned and whether it rebuilt the shoe.                             *)

\* the arguments given to Deck(num_decks=...)
NumDecksTried == {-1, 0, 1, 2}

\* random.shuffle of a list of any length: an empty list stays empty
Shuffles(full) ==
    IF Len(full) = 0 THEN {full} ELSE {ShuffleWith(full, s) : s \in TopChoices}

\* Deck.__init__(num_decks): the objects it can leave; nothing is validated
NewDeck(num_decks) ==
    {[num_decks |-> num_decks, cards |-> c,
      reshuffle_point |-> reshuffle_point(num_decks)]
        : c \in Shuffles(BuildDeck(num_decks))}

\* Deck.deal on the object d: the outcomes <<card, object, rebuilt>>
DealOf(d) ==
    LET rebuilt == Len(d.cards) <= d.reshuffle_point
        lists   == IF rebuilt THEN Shuffles(BuildDeck(d.num_decks)) ELSE {d.cards}
    IN  {IF Len(c) = 0
         THEN <<NoCard, [d EXCEPT !.cards = c], rebuilt>>
         ELSE <<Last(c), [d EXCEPT !.cards = Front(c)], rebuilt>> : c \in lists}

\* Deck(num_decks=n)
InitNewDeck ==
    /\ version = "new"
    /\ game_phase = "HOME"
    /\ player_money = 50000
    /\ dealer_money = 500000000
    /\ \E n \in NumDecksTried : deck \in NewDeck(n)
    /\ player_hand = <<>>
    /\ dealer_hand = <<>>
    /\ bet = 0
    /\ message = ""
    /\ round_over = FALSE /\ show_dealer_card = FALSE
    /\ player_busted = FALSE /\ dealer_busted = FALSE
    /\ player_blackjack = FALSE /\ dealer_blackjack = FALSE
    /\ rerun = FALSE
    /\ buttons = {}
    /\ shown = <<>>
    /\ hist = NoHist

\* deck.deal()
NewDeckDeal ==
    /\ version = "new"
    /\ \E o \in DealOf(deck) :
         /\ deck' = o[2]
         /\ shown' = <<"deal", o[1], o[3]>>
    /\ UNCHANGED <<version, game_phase, player_money, dealer_money, player_hand,
                   dealer_hand, bet, message, flags, rerun, buttons, hist>>

SpecNewDeck == InitNewDeck /\ [][NewDeckDeal]_vars

----------------------------------------------------------------------------
(* Hit after Hit: src/BJC.py and v1.1 on their betting pages, the deck         *)
(* shuffled so that the cards come rank by rank, the lowest ranks first when   *)
(* the first rank is the Ace; the bet is placed and the player hits as long as *)
(* the Hit button is there.                                                    *)

\* the i-th card dealt from a shoe of num_decks decks that deals all cards of
\* the rank ranks[k] first, then those of the next rank, and so on, the "2"
\* coming after the "A"
StackedDeal(num_decks, k, i) ==
    <<suits[((i - 1) % 4) + 1],
      ranks[((k - 1 + ((i - 1) \div (4 * num_decks))) % 13) + 1]>>

\* random.shuffle: that order, the first card dealt at the end of the list
Stacked(num_decks, k) ==
    [j \in 1..(52 * num_decks) |-> StackedDeal(num_decks, k, 52 * num_decks + 1 - j)]

\* the betting page of src/BJC.py after Play, and of v1.1 after Play Game
InitHits ==
    /\ version \in {"main", "v11"}
    /\ game_phase = (IF version = "main" THEN "betting" ELSE "BETTING")
    /\ player_money = 50000
    /\ dealer_money = 500000000
    /\ \E k \in 1..13 :
         deck = Stacked(IF version = "main" THEN 1 ELSE NUM_DECKS, k)
    /\ player_hand = <<>>
    /\ dealer_hand = <<>>
    /\ bet = 0
    /\ message = ""
    /\ round_over = FALSE /\ show_dealer_card = FALSE
    /\ player_busted = FALSE /\ dealer_busted = FALSE
    /\ player_blackjack = FALSE /\ dealer_blackjack = FALSE
    /\ rerun = FALSE
    /\ buttons = (IF version = "main" THEN MainSidebar \cup {"Place Bet"}
                  ELSE {"Place Bet & Deal"})
    /\ shown = <<game_phase>>
    /\ hist = NoHist

\* the bet, the pages and the Hit button
NextHits ==
    \/ MainRender
    \/ \E amount \in BetInputs : MainPlaceBet(amount)
    \/ MainHit
    \/ V11Render
    \/ \E bet_amount \in BetInputs : V11PlaceBet(bet_amount)
    \/ V11Hit

SpecHits == InitHits /\ [][NextHits]_vars

----------------------------------------------------------------------------
(* What the claims speak of *)

\* a hand is a blackjack: exactly two cards worth 21
IsBlackjack(hand) == Len(hand) = 2 /\ calculate_hand_value(hand) = 21

\* the step resolves the round: the winner is determined and the money moved
Resolves == hist'.resolved = hist.resolved + 1

\* the change of <<player_money, dealer_money>> in the step
MoneyChange == <<player_money' - player_money, dealer_money' - dealer_money>>

\* the round has been resolved and its hands are still on the table
RoundResolved ==
    /\ hist.resolved >= 1
    /\ game_phase \in {"result", "SHOWDOWN", "GAME_OVER"}

\* the phases in which a bet is placed, and those of a game that is over
BettingPhases == {"betting", "BETTING"}

\* the value of a rank with the Ace counted as 1, from its place in ranks
FaceValue(rank) ==
    LET i == CHOOSE k \in 1..13 : ranks[k] = rank IN
    IF i = 13 THEN 1 ELSE IF i >= 10 THEN 10 ELSE i + 1

RECURSIVE HardTotal(_)
\* the total of a hand with every Ace counted as 1
HardTotal(hand) ==
    IF hand = <<>> THEN 0 ELSE FaceValue(hand[1][2]) + HardTotal(Tail(hand))

\* the totals a hand can be counted as: each Ace as 1 or as 11
Totals(hand) ==
    LET aces == Cardinality({i \in 1..Len(hand) : hand[i][2] = "A"})
    IN  {HardTotal(hand) + 10 * k : k \in 0..aces}

\* the reference value: the largest total not above 21, else the hard total
ReferenceValue(hand) ==
    LET ok == {t \in Totals(hand) : t <= 21} IN
    IF ok # {} THEN CHOOSE t \in ok : \A u \in ok : u <= t
    ELSE HardTotal(hand)

\* the change of the balances that the order of resolution prescribes
PrescribedChange(ph, dh, b) ==
    LET pv == calculate_hand_value(ph)
        dv == calculate_hand_value(dh) IN
    IF pv > 21 THEN <<-b, b>>
    ELSE IF dv > 21 THEN <<b, -b>>
    ELSE IF IsBlackjack(ph) /\ IsBlackjack(dh) THEN <<0, 0>>
    ELSE IF IsBlackjack(ph) THEN <<(3 * b) \div 2, -((3 * b) \div 2)>>
    ELSE IF IsBlackjack(dh) THEN <<-b, b>>
    ELSE IF pv > dv THEN <<b, -b>>
    ELSE IF dv > pv THEN <<-b, b>>
    ELSE <<0, 0>>

----------------------------------------------------------------------------
(* The claims *)

\* C1: once a round has been resolved, and until the next bet, the balances
\* differ from those at the bet by exactly one delta of the round: (-bet, +bet),
\* (+bet, -bet) or (0, 0); a rerun of the result page or Play Again adds none.
C1_OneDeltaPerRound ==
    hist.resolved >= 1 =>
        \E d \in {-hist.bet0, 0, hist.bet0} :
            /\ player_money = hist.pm0 + d
            /\ dealer_money = hist.dm0 - d

\* C2: the step that resolves a round changes the balances as the order player
\* bust, dealer bust, both blackjack, player blackjack (1.5 * bet), dealer
\* blackjack, higher value, tie prescribes for the two hands.
C2_ResolutionOrder ==
    [][Resolves => MoneyChange = PrescribedChange(player_hand, dealer_hand, bet)]_vars

\* C3: a round resolved once, in which the player's two initial cards are a
\* blackjack and the dealer's two are not, has paid the player 1.5 * bet.
C3_PlayerBlackjackPays ==
    ( /\ RoundResolved /\ hist.resolved = 1
      /\ Len(player_hand) >= 2 /\ Len(dealer_hand) >= 2
      /\ IsBlackjack(SubSeq(player_hand, 1, 2))
      /\ ~IsBlackjack(SubSeq(dealer_hand, 1, 2)) )
    => /\ player_money = hist.pm0 + (3 * hist.bet0) \div 2
       /\ dealer_money = hist.dm0 - (3 * hist.bet0) \div 2

\* C4: the value written for a hand is the reference value: the largest total
\* not above 21 with each Ace as 1 or 11, else the total with every Ace as 1;
\* the empty hand is worth 0 and {A, A, 9} is worth 21.
C4_ValueIsReference ==
    (Len(shown) = 2 /\ shown[1] = "Value") =>
        /\ shown[2] = ReferenceValue(player_hand)
        /\ player_hand = <<>> => shown[2] = 0
        /\ player_hand = <<<<"Hearts", "A">>, <<"Hearts", "A">>, <<"Hearts", "9">>>>
             => shown[2] = 21

\* C4 witness: the value of {A, A, 9} has been written, and it is 21
C4_Witness ==
    /\ shown = <<"Value", 21>>
    /\ player_hand = <<<<"Hearts", "A">>, <<"Hearts", "A">>, <<"Hearts", "9">>>>

\* a Place Bet run with an amount above the player's balance or not positive
BadBetPlaced ==
    \E a \in BetInputs :
        /\ a > player_money \/ a <= 0
        /\ MainPlaceBet(a) \/ V1PlaceBet(a) \/ V11PlaceBet(a)

\* C5: a bet above the player's balance, or not positive, is rejected: the phase
\* stays the betting phase and balances, bet, hands and deck are unchanged.
C5_BadBetRejected ==
    [][BadBetPlaced =>
          /\ game_phase' \in BettingPhases
          /\ UNCHANGED <<game_phase, player_money, dealer_money, bet,
                         player_hand, dealer_hand, deck, hist>>]_vars

\* C5 witness: the page tells that the bet was refused, 500.00 still in hand
C5_Witness ==
    /\ Len(shown) = 2 /\ shown[1] \in BettingPhases
    /\ game_phase \in BettingPhases
    /\ player_money = 50000 /\ bet = 0 /\ player_hand = <<>>

\* the step gives the player a card that takes the hand above 21
PlayerBusts ==
    /\ Len(player_hand') = Len(player_hand) + 1
    /\ Len(player_hand) >= 2
    /\ calculate_hand_value(player_hand') > 21

\* C6: a card that takes the player's hand above 21 leads straight to the
\* showdown with the dealer's two cards untouched, and the round is resolved
\* as a player bust, (-bet, +bet), on the dealer's two initial cards.
C6_BustGoesToShowdown ==
    [][ /\ PlayerBusts =>
            /\ game_phase' \in {"result", "SHOWDOWN"}
            /\ dealer_hand' = dealer_hand
            /\ Len(dealer_hand) = 2
        /\ (Resolves /\ calculate_hand_value(player_hand) > 21) =>
            /\ Len(dealer_hand) = 2
            /\ hist.drew = 0
            /\ MoneyChange = <<-bet, bet>>
            /\ message' \in {"You busted! You lose.", "You Busted! You lose.",
                             "You've run out of money!"} ]_vars

\* C6 witness: a round resolved with the player bust and a dealer blackjack
C6_Witness ==
    /\ RoundResolved
    /\ calculate_hand_value(player_hand) > 21
    /\ IsBlackjack(dealer_hand)
    /\ player_money = hist.pm0 - hist.bet0

\* the player holds a blackjack against a dealer whose two cards are not 21:
\* the case in which process_dealer_turn of V1 pays without a dealer's draw
V1BlackjackShortcut ==
    /\ version = "v1"
    /\ IsBlackjack(player_hand)
    /\ Len(dealer_hand) = 2 /\ calculate_hand_value(dealer_hand) # 21

\* C7 as stated: at the showdown of every round in which the player has not
\* bust, the dealer has at least 17, and had less than 17 before the last card
\* drawn.
C7_DealerDrawsTo17 ==
    ( /\ game_phase \in {"result", "SHOWDOWN"}
      /\ calculate_hand_value(player_hand) <= 21 )
    => /\ calculate_hand_value(dealer_hand) >= 17
       /\ Len(dealer_hand) > 2 => calculate_hand_value(Front(dealer_hand)) < 17

\* C7 amended: at the showdown of a round in which the player has not bust, the
\* dealer has at least 17 and had less than 17 before the last card drawn,
\* except that V1 lets the dealer draw nothing when the player holds a
\* blackjack and the dealer's two cards are not 21: there the dealer stays on
\* the two cards of the deal, whatever they are worth.
C7_DealerDrawsTo17UnlessBlackjack ==
    /\ ( /\ game_phase \in {"result", "SHOWDOWN"}
         /\ calculate_hand_value(player_hand) <= 21
         /\ ~V1BlackjackShortcut )
       => /\ calculate_hand_value(dealer_hand) >= 17
          /\ Len(dealer_hand) > 2 => calculate_hand_value(Front(dealer_hand)) < 17
    /\ (game_phase = "SHOWDOWN" /\ V1BlackjackShortcut) => hist.drew = 0

\* C7 witness: a showdown of V1, the player not bust and without a blackjack,
\* the dealer having drawn from below 17 to 17 or more
C7_Witness ==
    /\ version = "v1" /\ game_phase = "SHOWDOWN"
    /\ calculate_hand_value(player_hand) <= 21
    /\ ~IsBlackjack(player_hand)
    /\ Len(dealer_hand) > 2 /\ hist.drew >= 1
    /\ calculate_hand_value(dealer_hand) \in 17..21

\* the step doubles down
DoublesDown == hist'.doubled /\ ~hist.doubled

\* C8: doubling down doubles the bet, takes the original bet from the player's
\* balance at once, deals one card and ends the player's turn (DEALER_TURN, or
\* SHOWDOWN on a bust); the hand of a doubled round has exactly 3 cards.
C8_DoubleDown ==
    [][ /\ DoublesDown =>
            /\ bet' = 2 * bet
            /\ player_money' = player_money - bet
            /\ dealer_money' = dealer_money
            /\ player_hand' = Append(player_hand, Last(deck))
            /\ deck' = Front(deck)
            /\ dealer_hand' = dealer_hand
            /\ game_phase' = IF calculate_hand_value(player_hand') > 21
                             THEN "SHOWDOWN" ELSE "DEALER_TURN"
        /\ hist'.doubled => Len(player_hand') = 3 ]_vars

\* C8 witness: the round of a doubled 25000 resolved, three cards, not bust
C8_Witness ==
    /\ version = "v11" /\ hist.doubled /\ RoundResolved
    /\ bet = 2 * hist.bet0 /\ Len(player_hand) = 3
    /\ calculate_hand_value(player_hand) <= 21

\* C9: the bet is doubled only in PLAYER_TURN with exactly 2 cards in hand and
\* a balance of at least the bet; the Double Down button is on the page in no
\* other state, so that elsewhere nothing can be doubled.
C9_DoubleOnlyWhenAllowed ==
    /\ []("Double Down" \in buttons =>
            /\ game_phase = "PLAYER_TURN"
            /\ Len(player_hand) = 2
            /\ player_money >= bet)
    /\ [][(DoublesDown \/ (bet' = 2 * bet /\ bet > 0)) =>
            /\ game_phase = "PLAYER_TURN"
            /\ Len(player_hand) = 2
            /\ player_money >= bet
            /\ "Double Down" \in buttons]_vars

\* C9 witness: PLAYER_TURN after a hit, three cards: no Double Down on the page
C9_Witness ==
    /\ version = "v11" /\ game_phase = "PLAYER_TURN" /\ rerun = FALSE
    /\ Len(player_hand) = 3
    /\ buttons = {"Hit", "Stand"}

\* the game is over: a balance is gone after a round was resolved
GameIsOver == hist.resolved >= 1 /\ (player_money <= 0 \/ dealer_money <= 0)

\* the state of a session after a reset
FreshSession ==
    /\ game_phase \in {"start", "HOME"}
    /\ player_money = 50000 /\ dealer_money = 500000000
    /\ hist = NoHist

\* C10: once a round is resolved with a balance at or below 0 the game is over:
\* the script is in its game-over state, no bet is taken and no round starts
\* until the session is reset; so wherever a bet can be placed both balances
\* are above 0.
C10_GameOverIsTerminal ==
    /\ [](GameIsOver =>
            /\ game_phase \in {"result", "quit", "GAME_OVER"}
            /\ version # "v1" =>
                 buttons \cap {"Play Again", "Play Next Hand?", "Place Bet",
                               "Place Bet & Deal"} = {})
    /\ [](game_phase \in BettingPhases => player_money > 0 /\ dealer_money > 0)
    /\ [][GameIsOver =>
            \/ FreshSession'
            \/ /\ game_phase' \in {"result", "quit", "GAME_OVER"}
               /\ hist'.round = hist.round
               /\ UNCHANGED <<player_hand, dealer_hand, bet>>]_vars

\* C10 witness: the player's money is gone and the game is over
C10_Witness ==
    /\ GameIsOver /\ player_money <= 0
    /\ game_phase \in {"result", "GAME_OVER"}
    /\ rerun = FALSE

\* the 52 cards
Cards == {<<suits[i], ranks[j]>> : i \in 1..4, j \in 1..13}

\* the step takes a bet and deals the four cards of a new round
BetAccepted == hist'.round = hist.round + 1

\* the step is a Hit or a Double Down
PlayerDraws == MainHit \/ V1Hit \/ V11Hit \/ V11DoubleDown

\* the step is the dealer's turn
DealerPlays == MainDealerTurn \/ V1DealerTurn \/ V11DealerTurn

\* hand b is hand a with n cards added at its end
Extends(a, b, n) ==
    /\ Len(b) = Len(a) + n
    /\ SubSeq(b, 1, Len(a)) = a
    /\ \A i \in (Len(a) + 1)..Len(b) : b[i] \in Cards

\* C11: no deal meets an empty deck. Wherever src/BJC.py pops a card the deck
\* holds the cards the pop needs (four at the bet, one at a Hit, as many as the
\* dealer's loop takes), the shoe of v1.1 is never empty, no hand ever holds
\* anything but cards, and every deal adds exactly one card to the hand it
\* goes to: two to each hand at the bet, one at a Hit or a Double Down, one per
\* draw of the dealer.
C11_NeverDealsFromEmpty ==
    /\ [](version = "main" =>
            /\ game_phase = "betting" => Len(deck) >= 4
            /\ game_phase = "player_turn" => Len(deck) >= 1
            /\ game_phase = "dealer_turn" =>
                 calculate_hand_value(DealerLoop(dealer_hand, deck)[1]) >= 17)
    /\ [](version = "v11" => Len(deck) >= 1)
    /\ [](/\ \A i \in 1..Len(player_hand) : player_hand[i] \in Cards
          /\ \A i \in 1..Len(dealer_hand) : dealer_hand[i] \in Cards)
    /\ [][ /\ BetAccepted => Len(player_hand') = 2 /\ Len(dealer_hand') = 2
           /\ PlayerDraws => /\ Extends(player_hand, player_hand', 1)
                              /\ dealer_hand' = dealer_hand
           /\ DealerPlays => /\ Extends(dealer_hand, dealer_hand', hist'.drew)
                              /\ player_hand' = player_hand
                              /\ Len(dealer_hand') > Len(dealer_hand) =>
                                   calculate_hand_value(dealer_hand) < 17 ]_vars

\* C11 witness: src/BJC.py in its second round, the player having hit and the
\* dealer having drawn, every card dealt from a deck of fewer than 52
C11_Witness ==
    /\ version = "main" /\ game_phase = "result"
    /\ hist.round = 2 /\ hist.drew >= 1
    /\ Len(player_hand) >= 3
    /\ Len(deck) = 52 - Len(player_hand) - Len(dealer_hand)

\* C12: deal() rebuilds the shoe to NUM_DECKS * 52 cards exactly when it holds
\* reshuffle_point cards or fewer before the deal, and deals from the shoe as it
\* is otherwise: after a deal the shoe holds NUM_DECKS * 52 - 1 cards if it was
\* rebuilt and one card fewer than before if not; it never holds fewer cards
\* than the reshuffle point, and the card returned is a card.
C12_RebuildAtThreshold ==
    /\ [][DeckDeal =>
            /\ Len(deck') = IF Len(deck) <= (52 * NUM_DECKS * RESHUFFLE_THRESHOLD) \div 100
                            THEN 52 * NUM_DECKS - 1
                            ELSE Len(deck) - 1
            /\ Len(deck) > (52 * NUM_DECKS * RESHUFFLE_THRESHOLD) \div 100 =>
                    deck' = Front(deck) /\ shown'[2] = Last(deck)
            /\ shown'[2] \in Cards]_vars
    /\ [](version = "deck" =>
            /\ Len(deck) >= (52 * NUM_DECKS * RESHUFFLE_THRESHOLD) \div 100
            /\ Len(deck) = 52 * NUM_DECKS - hist.drew)

\* C12 witness: the first deal after the shoe had come down to the reshuffle
\* point: the shoe was rebuilt and holds all its cards but one
C12_Witness ==
    /\ version = "deck" /\ hist.round = 1 /\ hist.drew = 1
    /\ Len(deck) = 52 * NUM_DECKS - 1
    /\ Len(shown) = 2

\* the step is a click on Play Again / Play Again? / Play Next Hand?
StartsNewRound == MainPlayAgain \/ V1PlayAgain \/ V11PlayNextHand

\* the size at or below which a deal replaces the shoe: the reshuffle point of
\* v1.1; the single decks of the other two scripts have none
ShoeThreshold == IF version = "v11" THEN (52 * NUM_DECKS * RESHUFFLE_THRESHOLD) \div 100 ELSE 0

\* C13: the click that starts a new round after a resolved one leads to the
\* betting phase with both balances and the shoe as they were, and the bet that
\* follows deals from that shoe, which is replaced only when it has come down
\* to the reshuffle point.
C13_NewRoundKeepsShoe ==
    [][ /\ StartsNewRound =>
            /\ game_phase' \in BettingPhases
            /\ UNCHANGED <<player_money, dealer_money, deck>>
        /\ (BetAccepted /\ hist.round >= 1 /\ Len(deck) >= ShoeThreshold + 4) =>
            /\ deck' = SubSeq(deck, 1, Len(deck) - 4)
            /\ {player_hand'[1], player_hand'[2], dealer_hand'[1], dealer_hand'[2]}
                 = {deck[i] : i \in (Len(deck) - 3)..Len(deck)} ]_vars

\* the phases of the player's turn and of the dealer's turn
PlayerTurnPhases == {"player_turn", "PLAYER_TURN"}
DealerTurnPhases == {"dealer_turn", "DEALER_TURN"}

\* a round is on whose deal gave the player or the dealer a blackjack
DealtBlackjack ==
    /\ hist.round >= 1
    /\ Len(player_hand) >= 2 /\ Len(dealer_hand) >= 2
    /\ \/ IsBlackjack(SubSeq(player_hand, 1, 2))
       \/ IsBlackjack(SubSeq(dealer_hand, 1, 2))

\* C14: when the deal gives the player or the dealer a blackjack the bet leads
\* straight to the dealer's turn; the player's turn is not entered in that
\* round, and no Hit, Stand or Double Down takes effect in it.
C14_BlackjackSkipsPlayerTurn ==
    /\ [][(BetAccepted /\ (IsBlackjack(player_hand') \/ IsBlackjack(dealer_hand')))
            => game_phase' \in DealerTurnPhases]_vars
    /\ [](DealtBlackjack =>
            /\ game_phase \notin PlayerTurnPhases
            /\ Len(player_hand) = 2
            /\ ~hist.doubled)
    /\ [][DealtBlackjack =>
            ~(MainHit \/ MainStand \/ V1Hit \/ V1Stand
                \/ V11Hit \/ V11Stand \/ V11DoubleDown)]_vars

\* the messages of the three blackjack outcomes
PlayerBlackjackMessages == {"Blackjack! You win.", "Blackjack! You win!"}
DealerBlackjackMessages == {"Dealer Blackjack! You lose."}
BothBlackjackMessages ==
    {"Push! Both have Blackjack.", "Push! Both have Blackjack. Bet returned."}

\* C15: a hand counts as a blackjack iff it has exactly 2 cards worth 21. When a
\* round of V1 or v1.1 is resolved, a player's hand of 3 or more cards is never
\* paid 1.5 * bet, a dealer's 21 of 3 or more cards never gives the dealer's
\* blackjack (it ties a player's 21 of 3 or more cards and beats less), the
\* blackjack outcomes are given to two-card 21s only, the flags of v1.1 say
\* blackjack exactly for such hands, and V1 gives every player's two-card 21 a
\* blackjack outcome.
C15_BlackjackIsTwoCards21 ==
    [][Resolves =>
        /\ Len(player_hand) >= 3 =>
              /\ MoneyChange[1] # (3 * bet) \div 2
              /\ message' \notin PlayerBlackjackMessages \cup BothBlackjackMessages
        /\ (Len(dealer_hand) >= 3 /\ calculate_hand_value(dealer_hand) = 21) =>
              /\ message' \notin DealerBlackjackMessages \cup BothBlackjackMessages
              /\ (Len(player_hand) >= 3 /\ calculate_hand_value(player_hand) = 21)
                    => MoneyChange = <<0, 0>>
              /\ calculate_hand_value(player_hand) < 21 => MoneyChange = <<-bet, bet>>
        /\ message' \in PlayerBlackjackMessages =>
              IsBlackjack(player_hand) /\ ~IsBlackjack(dealer_hand)
        /\ message' \in DealerBlackjackMessages =>
              IsBlackjack(dealer_hand) /\ ~IsBlackjack(player_hand)
        /\ message' \in BothBlackjackMessages =>
              IsBlackjack(dealer_hand) /\ IsBlackjack(player_hand)
        /\ version = "v11" =>
              /\ player_blackjack = IsBlackjack(player_hand)
              /\ dealer_blackjack = IsBlackjack(dealer_hand)
        /\ (version = "v1" /\ IsBlackjack(player_hand)) =>
              MoneyChange[1] = IF IsBlackjack(dealer_hand) THEN 0 ELSE (3 * bet) \div 2
    ]_vars

\* C15 witness: a round of V1 or v1.1 resolved once, won by the player with a
\* 21 of three cards and paid the bet, not 1.5 times the bet
C15_Witness ==
    /\ version \in {"v1", "v11"} /\ RoundResolved /\ hist.resolved = 1
    /\ Len(player_hand) = 3 /\ calculate_hand_value(player_hand) = 21
    /\ ~hist.doubled
    /\ player_money = hist.pm0 + hist.bet0

\* a round of v1.1 resolved with a dealer's 21 of three cards against a player's
\* blackjack, which is paid as the only blackjack
DealerThreeCard21 ==
    /\ version = "v11" /\ RoundResolved /\ hist.resolved = 1
    /\ Len(dealer_hand) = 3 /\ calculate_hand_value(dealer_hand) = 21
    /\ IsBlackjack(player_hand)
    /\ message \in PlayerBlackjackMessages

\* process_showdown of v1.1 as a function of the two hands and the bet alone:
\* the outcome it gives when the flags are what the hands say
OutcomeOfHands(ph, dh, b) ==
    V11Outcome(calculate_hand_value(ph) > 21, calculate_hand_value(dh) > 21,
               IsBlackjack(ph), IsBlackjack(dh), ph, dh, b)

\* C16: in v1.1 the outcome and the change of the balances at the showdown are
\* a function of the player's final hand, the dealer's final hand and the bet:
\* whatever led to the showdown, the stored flags say what the two hands say,
\* and the message and the change are those that function gives, so that two
\* showdowns on the same hands and bet end alike.
C16_OutcomeIsFunctionOfHands ==
    /\ []((version = "v11" /\ game_phase = "SHOWDOWN") =>
            /\ player_busted = (calculate_hand_value(player_hand) > 21)
            /\ dealer_busted = (calculate_hand_value(dealer_hand) > 21)
            /\ player_blackjack = IsBlackjack(player_hand)
            /\ dealer_blackjack = IsBlackjack(dealer_hand))
    /\ [][(version = "v11" /\ Resolves) =>
            LET w == OutcomeOfHands(player_hand, dealer_hand, bet) IN
            /\ message' = w[1]
            /\ MoneyChange = <<w[2], w[3]>>]_vars

\* C16 witness: a round of v1.1 resolved after a Double Down whose card took the
\* hand above 21: the flag says bust as the hand does, the dealer has not drawn
C16_Witness ==
    /\ version = "v11" /\ RoundResolved /\ hist.resolved = 1
    /\ hist.doubled /\ Len(player_hand) = 3
    /\ calculate_hand_value(player_hand) > 21 /\ player_busted
    /\ Len(dealer_hand) = 2 /\ ~dealer_busted
    /\ message = "You Busted! You lose."

\* what the page of the player's turn may tell of the dealer, given the
\* dealer's first card alone: the card, [Hidden], and (old scripts) its value
MaskedView(first) ==
    IF version = "main" THEN <<"player_turn", <<first, Hidden>>, "">>
    ELSE <<"PLAYER_TURN", <<first, Hidden>>,
           IF first[2] \in {"J", "Q", "K"} THEN 10
           ELSE IF first[2] = "A" THEN 11
           ELSE IntOfRank(first[2])>>

\* the page of the player's turn is on the screen
PlayerTurnPage == game_phase \in PlayerTurnPhases /\ rerun = FALSE

\* C17: during the player's turn the dealer's second card is masked. The page
\* shows of the dealer what the first card alone determines, so that two states
\* that differ in the second card only show the same, and a run of the script
\* with no button clicked writes the same page again.
C17_HoleCardMasked ==
    /\ [](PlayerTurnPage => shown = MaskedView(dealer_hand[1]))
    /\ [][(PlayerTurnPage /\ (MainRender \/ V1Render \/ V11Render)) =>
             shown' = shown /\ buttons' = buttons]_vars

\* C17 witness: the page of the player's turn of v1.1 with a dealer's 4 under a
\* King: what is written is the King, [Hidden] and 10
C17_Witness ==
    /\ version = "v11" /\ PlayerTurnPage
    /\ dealer_hand[1][2] = "K" /\ dealer_hand[2][2] = "4"
    /\ shown = <<"PLAYER_TURN", <<dealer_hand[1], Hidden>>, 10>>

\* C18: a shoe is never made with deckCount below one (the construction fails
\* with InvalidConfig and leaves no shoe), and a rebuild never leaves a shoe
\* with zero cards, so that deal() always has a card to return
C18_InvalidConfigRejected ==
    version = "new" =>
        /\ deck.num_decks >= 1
        /\ (shown # <<>> /\ shown[3]) => (shown[2] # NoCard /\ Len(deck.cards) > 0)


\* the round on the table is resolved, its page is on the screen and both
\* balances are positive
ResolvedInPlay ==
    /\ ~rerun
    /\ game_phase \in {"result", "SHOWDOWN"}
    /\ hist.resolved >= 1
    /\ version \in {"v1", "v11"} => round_over
    /\ player_money > 0 /\ dealer_money > 0

\* the button that starts the next round
PlayAgainButton ==
    IF version = "main" THEN "Play Again"
    ELSE IF version = "v1" THEN "Play Again?" ELSE "Play Next Hand?"

PlayAgainClicked == MainPlayAgain \/ V1PlayAgain \/ V11PlayNextHand

\* C19: once a round is resolved and both balances are positive, the page
\* offers the Play Again / Play Next Hand button, and clicking it leads to the
\* betting phase
C19_NewBettingReachable ==
    /\ [](ResolvedInPlay => PlayAgainButton \in buttons)
    /\ [][(ResolvedInPlay /\ PlayAgainClicked) =>
             game_phase' \in {"betting", "BETTING"}]_vars

HomePhases == {"start", "HOME"}
ShowdownPhases == {"result", "SHOWDOWN"}

\* the step enters a phase of the set P
Enters(P) == game_phase \notin P /\ game_phase' \in P

\* the step is a stand (no card is dealt to the player) or a double-down
StandOrDouble == player_hand' = player_hand \/ (~hist.doubled /\ hist'.doubled)

\* C20: the player's turn is entered only from betting; the dealer's turn only
\* from the player's turn by a stand or a double-down, or from betting when a
\* blackjack was dealt; the showdown only from the dealer's turn, or from the
\* player's turn when the player has busted; betting only from the home page or
\* from a showdown that is resolved
C20_PhaseOrder ==
    [][/\ Enters(PlayerTurnPhases) => game_phase \in BettingPhases
       /\ Enters(DealerTurnPhases) =>
            \/ game_phase \in PlayerTurnPhases /\ StandOrDouble
            \/ /\ game_phase \in BettingPhases
               /\ IsBlackjack(player_hand') \/ IsBlackjack(dealer_hand')
       /\ Enters(ShowdownPhases) =>
            \/ game_phase \in DealerTurnPhases
            \/ /\ game_phase \in PlayerTurnPhases
               /\ calculate_hand_value(player_hand') > 21
       /\ Enters(BettingPhases) =>
            \/ game_phase \in HomePhases
            \/ game_phase \in ShowdownPhases /\ hist.resolved >= 1]_vars

\* a round that went from betting through a double-down that did not bust, the
\* dealer's turn and the showdown, and after which betting was entered again
C20_Witness ==
    /\ version = "v11" /\ game_phase = "BETTING"
    /\ hist.round = 1 /\ hist.resolved = 1 /\ hist.doubled
    /\ Len(player_hand) = 3 /\ calculate_hand_value(player_hand) <= 21
    /\ Len(dealer_hand) >= 2

\* the round is in the dealer's turn, or in a showdown not yet resolved
DealerToPlayOrSettle ==
    \/ game_phase \in DealerTurnPhases
    \/ game_phase \in ShowdownPhases /\ hist.resolved = 0

\* C21: a round that enters the dealer's turn reaches the showdown and is
\* resolved, and from the dealer's turn to the resolution no button can be
\* clicked: every run in between was asked for by st.rerun()
C21_DealerTurnResolves ==
    /\ (game_phase \in DealerTurnPhases) ~> RoundResolved
    /\ [](DealerToPlayOrSettle => rerun)

\* a resolved round in which the dealer's loop drew two cards
C21_Witness ==
    /\ RoundResolved /\ ~rerun
    /\ hist.drew = 2 /\ Len(dealer_hand) = 4
    /\ calculate_hand_value(dealer_hand) >= 17

\* the step is a Hit
HitClicked == MainHit \/ V1Hit \/ V11Hit

StandClicked == MainStand \/ V1Stand \/ V11Stand

\* C23: a Stand moves the round from the player's turn to the dealer's turn and
\* deals no card: the player's hand, the dealer's hand, the shoe, the bet and
\* both balances are as they were
C23_StandChangesPhaseOnly ==
    [][StandClicked =>
          /\ game_phase \in PlayerTurnPhases
          /\ game_phase' \in DealerTurnPhases
          /\ UNCHANGED <<player_hand, dealer_hand, deck, bet, player_money,
                         dealer_money>>]_vars

\* the dealer's turn entered by a Stand on the two cards dealt
C23_Witness ==
    /\ game_phase \in DealerTurnPhases /\ rerun
    /\ Len(player_hand) = 2 /\ Len(dealer_hand) = 2
    /\ ~DealtBlackjack /\ ~hist.doubled

\* C24: in v1.1 a round in which the player doubled down was dealt no
\* blackjack, carries no blackjack flag and is not resolved as a blackjack of
\* the player, of the dealer or of both; and the bet of a round that was dealt
\* a blackjack is never doubled
C24_DoubleExcludesBlackjack ==
    /\ [](hist.doubled =>
            /\ ~DealtBlackjack
            /\ ~player_blackjack /\ ~dealer_blackjack
            /\ message \notin PlayerBlackjackMessages \cup DealerBlackjackMessages
                               \cup BothBlackjackMessages)
    /\ [](DealtBlackjack => bet = hist.bet0)

\* a round of v1.1 resolved after a double-down, the doubled bet still on the table
C24_Witness ==
    /\ version = "v11" /\ RoundResolved /\ hist.doubled
    /\ bet = 2 * hist.bet0 /\ bet > 0

\* the session state that initialize_session_state / initialize_game leave:
\* 500.00 and 5,000,000.00, empty hands, no bet, no message, the first phase,
\* every flag down, and the deck empty (src/BJC.py) or freshly built and
\* shuffled (V1, v1.1)
InitialSession ==
    /\ player_money = 50000 /\ dealer_money = 500000000
    /\ player_hand = <<>> /\ dealer_hand = <<>>
    /\ bet = 0 /\ message = ""
    /\ game_phase = (IF version = "main" THEN "start" ELSE "HOME")
    /\ ~round_over /\ ~show_dealer_card /\ ~player_busted /\ ~dealer_busted
    /\ ~player_blackjack /\ ~dealer_blackjack
    /\ hist = NoHist
    /\ deck \in (IF version = "main" THEN {<<>>}
                 ELSE IF version = "v1" THEN Shuffles1 ELSE Shuffles4)

\* the step resets the session
ResetClicked == MainReset \/ V1StartNewGame \/ V11StartNewGame

\* C25: a reset leaves exactly the session state that a new session starts
\* with, whatever the state it is clicked in, so that a second reset changes
\* nothing; and src/BJC.py offers Reset Game on every page it writes, in
\* every phase
C25_ResetRestoresInitial ==
    /\ [][ResetClicked => InitialSession']_vars
    /\ [][(ResetClicked /\ InitialSession) =>
             UNCHANGED <<game_phase, player_money, dealer_money, player_hand,
                         dealer_hand, bet, message, flags, hist>>]_vars
    /\ [](version = "main" /\ ~rerun => "Reset Game" \in buttons)

\* src/BJC.py just after Reset Game was clicked: only Reset Game leads to the
\* phase start with a rerun pending
C25_Witness ==
    /\ version = "main" /\ game_phase = "start" /\ rerun
    /\ InitialSession

\* the page on the screen shows the dealer's whole hand and its value
DealerExposed ==
    /\ Len(shown) = 3
    /\ shown[2] = dealer_hand
    /\ shown[3] = calculate_hand_value(dealer_hand)

\* C26: whenever the round is at the showdown, resolved or not, the page on the
\* screen shows the dealer's whole hand and its value, and in V1 and v1.1 the
\* flag show_dealer_card of a resolved round is up; a round that ended by a
\* bust of the player is no exception
C26_DealerExposedAtShowdown ==
    /\ []((~rerun /\ game_phase \in ShowdownPhases) => DealerExposed)
    /\ []((version # "main" /\ game_phase = "SHOWDOWN" /\ hist.resolved >= 1)
             => show_dealer_card)

\* no round is in progress: the home page, betting, a resolved round, game over
NoRoundInProgress ==
    \/ game_phase \in HomePhases \cup BettingPhases \cup {"GAME_OVER", "quit"}
    \/ RoundResolved

\* C27: wherever no round is in progress the two balances add up to what they
\* added up to at the start, 500.00 + 5,000,000.00, whatever rounds were played
C27_MoneyConserved ==
    NoRoundInProgress => player_money + dealer_money = 50000 + 500000000

\* C28: the player's balance is never below zero: no round takes more from the
\* player than the player had when the bet was placed
C28_BalanceNeverNegative == player_money >= 0

\* how often the card c is in the list d
CountIn(d, c) == Cardinality({i \in 1..Len(d) : d[i] = c})

\* how often the card c is in the shoe and the two hands together
CountOnTable(c) == CountIn(deck, c) + CountIn(player_hand, c) + CountIn(dealer_hand, c)

\* the number of decks the script builds its shoe from
DeckCount == IF version = "v11" THEN NUM_DECKS ELSE 1

\* a round is on: from the deal to its resolution, the hands on the table
RoundOn ==
    /\ hist.round >= 1
    /\ game_phase \in PlayerTurnPhases \cup DealerTurnPhases \cup ShowdownPhases

HitsTaken == Len(player_hand) - 2

\* C30: every Hit raises the hard total of the player's hand (Aces counted as
\* 1) by at least 1; in the player's turn that total is at most 21, so that
\* the player's turn has seen at most 19 Hits and a round at most 20; and a Hit
\* that takes the hand above 21 ends the player's turn
C30_HitsAreBounded ==
    /\ [][HitClicked => HardTotal(player_hand') >= HardTotal(player_hand) + 1]_vars
    /\ []((game_phase \in PlayerTurnPhases /\ Len(player_hand) >= 2) =>
             /\ HardTotal(player_hand) <= 21
             /\ HitsTaken <= 19)
    /\ [](Len(player_hand) >= 2 => HitsTaken <= 20)
    /\ [][(HitClicked /\ HardTotal(player_hand') > 21) =>
             game_phase' \notin PlayerTurnPhases]_vars

\* v1.1, sixteen Hits: twelve Aces and three Twos on the two Aces dealt, and
\* the Two that busts the hand
C30_Witness ==
    /\ version = "v11" /\ game_phase = "SHOWDOWN"
    /\ HitsTaken = 16
    /\ HardTotal(player_hand) = 22
    /\ HardTotal(SubSeq(player_hand, 1, 17)) = 20

\* C31: whenever the phase is the player's turn, the player's hand has at
\* least 2 cards and a value of at most 21, the dealer's hand has exactly 2
\* cards, and the bet is above 0 and at most the player's balance
C31_PlayerTurnInvariant ==
    game_phase \in PlayerTurnPhases =>
        /\ Len(player_hand) >= 2
        /\ calculate_hand_value(player_hand) <= 21
        /\ Len(dealer_hand) = 2
        /\ 0 < bet
        /\ bet <= player_money

\* the player's turn of a second round, the larger bet placed out of the
\* winnings of the first, after a Hit that took the hand to 21
C31_Witness ==
    /\ game_phase \in PlayerTurnPhases
    /\ hist.round = 2
    /\ bet = 60000
    /\ Len(player_hand) = 3
    /\ calculate_hand_value(player_hand) = 21
    /\ Len(dealer_hand) = 2

====
